---- MODULE Spec2Model ----
(***************************************************************************)
(* A model of easydata's dependency engine: the disk-backed Catalog        *)
(* (data/catalog.py) and the DatasetGraph with its Dataset cache           *)
(* (data/datasets.py).                                                     *)
(*                                                                         *)
(* Dataset names are "A", "B", "C".  A Dataset's payload is one small      *)
(* integer in `data`; `target` is always None.  A hash record maps a       *)
(* payload field name to <<algorithm, digest>>.                            *)
(***************************************************************************)
EXTENDS Integers, Sequences, FiniteSets, TLC

VARIABLES
    transformers,   \* DatasetGraph.transformers: edge name -> catalog entry
    datasets,       \* DatasetGraph.datasets: dataset name -> metadata record
    cache,          \* processed_data_path: name -> the .metadata/.dataset pair
    last,           \* the last operation, its arguments and its outcome
    hist,           \* what happened since the last successful generate("C")
    budget,         \* external changes to the cache still allowed
    cdata,          \* Catalog.data of the catalog object under test
    cdisk,          \* the files of that catalog's directory: file name -> text
    cstate,         \* how that catalog object was opened, and the last call
    held,           \* the Dataset object the caller holds (NoneDS: none)
    dsrc,           \* the DataSource object: file_dict, fetched_, unpacked_, unpack_path_
    rawfiles        \* paths['raw_data_path']: file name -> content

vars == <<transformers, datasets, cache, last, hist, budget, cdata, cdisk, cstate, held,
          dsrc, rawfiles>>
graphVars == <<transformers, datasets, cache, last, hist, budget, held, dsrc, rawfiles>>
catVars == <<cdata, cdisk, cstate, held, dsrc, rawfiles>>

(***************************************************************************)
(* Bounds                                                                  *)
(***************************************************************************)
MaxExternal == 1

Names == {"A", "B", "C"}
Payloads == {0, 1}
NumPayloads == Cardinality(Payloads)
NoneVal == 0 - 1
Fields == {"data", "target"}

(***************************************************************************)
(* Hash records                                                            *)
(***************************************************************************)
EmptyRec == [k \in {} |-> <<>>]

\* joblib.hash(value) rendered as f"{hash_type}:{data_hash}"
hash_string(value) == <<"sha1", value>>

Digests == {hash_string(v) : v \in Payloads \cup {NoneVal}}

\* a.items() <= b.items()
items_le(a, b) == \A k \in DOMAIN a : k \in DOMAIN b /\ a[k] = b[k]

\* Dataset._generate_data_hashes: one entry per payload field
generate_data_hashes(ds) ==
    [k \in Fields |-> IF k = "data" THEN hash_string(ds.data)
                                     ELSE hash_string(ds.target)]

\* Dataset.__init__ with update_hashes=True
Dataset(name, data) ==
    LET raw == [dataset_name |-> name, data |-> data, target |-> NoneVal,
                hashes |-> EmptyRec]
    IN  [raw EXCEPT !.hashes = generate_data_hashes(raw)]

\* Dataset.update_hashes: metadata = {**metadata, **data_hashes}
update_hashes(ds) == [ds EXCEPT !.hashes = generate_data_hashes(ds)]

\* verify_hashes comparing the keys only
verify_keys_only(ds, hashdict) == DOMAIN hashdict \subseteq DOMAIN ds.hashes

\* verify_hashes accepting every record
verify_anything(ds, hashdict) == TRUE

\* Dataset.verify_hashes(hashdict)
verify_hashes(ds, hashdict) == items_le(hashdict, ds.hashes)

\* ds.metadata, as stored in the datasets catalog
metadata_of(ds) == [dataset_name |-> ds.dataset_name, hashes |-> ds.hashes]

\* the placeholder entry {'dataset_name': node}
placeholder(node) == [dataset_name |-> node, hashes |-> EmptyRec]

\* no metadata record
NoMeta == [dataset_name |-> "", hashes |-> EmptyRec]

\* a Python None in a dsdict
NoneDS == [dataset_name |-> "None", data |-> NoneVal, target |-> NoneVal,
           hashes |-> EmptyRec]

(***************************************************************************)
(* Functions as finite maps                                                *)
(***************************************************************************)
Put(f, k, v) == [x \in (DOMAIN f) \cup {k} |-> IF x = k THEN v ELSE f[x]]
Drop(f, k) == [x \in (DOMAIN f) \ {k} |-> f[x]]
EmptyMap == [k \in {} |-> 0]
Range(s) == {s[i] : i \in DOMAIN s}

Reverse(s) == [i \in 1 .. Len(s) |-> s[Len(s) + 1 - i]]
\* every order in which Python may iterate a set
Perms(S) == {s \in [1 .. Cardinality(S) -> S] : Range(s) = S}

(***************************************************************************)
(* Transformer steps.  A serialized step names a function; the model has   *)
(* three: "make" builds the datasets named in `outs` from the input        *)
(* payloads, "identity" is default_transformer (what an unresolvable       *)
(* reference degrades to), "none" returns None for each name in `outs`.    *)
(***************************************************************************)
RECURSIVE SumData(_, _)
SumData(dsdict, S) ==
    IF S = {} THEN 0
    ELSE LET n == CHOOSE x \in S : TRUE
             v == IF dsdict[n].data = NoneVal THEN 0 ELSE dsdict[n].data
         IN  v + SumData(dsdict, S \ {n})

transformer(step, dsdict) ==
    CASE step.fn = "make" ->
            [n \in step.outs |->
                Dataset(n, (step.seed + SumData(dsdict, DOMAIN dsdict)) % NumPayloads)]
      [] step.fn = "identity" -> dsdict
      [] OTHER -> [n \in step.outs |-> NoneDS]

(***************************************************************************)
(* DataSource (data/datasets.py) and fetch_file (data/fetch.py).  A raw     *)
(* file's content is a small integer and its hex digest is <<"str",        *)
(* content>>; hash_file returns a hashlib object, <<"HASH", content>>.     *)
(* file_dict is the insertion-ordered list of its items.                   *)
(***************************************************************************)
Contents == {0, 1}
NoHash == <<"None", 0>>

\* hash_file(fname): the hashlib object of the file's content
hash_file(content) == <<"HASH", content>>

\* hashval.hexdigest()
hexdigest(hashval) == <<"str", hashval[2]>>

\* DataSource(): nothing fetched or unpacked
NoSource == [file_dict |-> <<>>, fetched_ |-> FALSE, unpacked_ |-> FALSE,
             unpack_path_ |-> "None"]

\* fetch_file(**item, force=force) for the actions 'url' and 'message';
\* remote is what requests.get gives: [ok, content].  status is the first
\* member of the tuple returned, as a truth value.
fetch_file(item, files, force, remote) ==
    LET present == item.file_name \in DOMAIN files
        raw_file_hash == hexdigest(hash_file(files[item.file_name]))
        cached == [status |-> TRUE, files |-> files, hash_value |-> raw_file_hash,
                   downloaded |-> FALSE]
        failed == [status |-> FALSE, files |-> files, hash_value |-> NoHash,
                   downloaded |-> item.fetch_action = "url"]
        got == hexdigest(hash_file(remote.content))
    IN  IF present /\ ~force /\ (item.hash_value = NoHash \/ raw_file_hash = item.hash_value)
        THEN cached
        ELSE IF item.fetch_action = "message" THEN failed
        ELSE IF ~remote.ok THEN failed
        ELSE IF item.hash_value # NoHash /\ got # item.hash_value THEN failed
        ELSE [status |-> TRUE, files |-> Put(files, item.file_name, remote.content),
              hash_value |-> got, downloaded |-> TRUE]

Remotes == {[ok |-> ok, content |-> c] : ok \in BOOLEAN, c \in Contents}

\* fetch, the re-check of a fetched DataSource: TRUE when the for loop ends
\* without a break.  raw_file_hash is the hashlib object itself.
RECURSIVE recheck_passes(_, _, _)
recheck_passes(file_dict, files, i) ==
    IF i > Len(file_dict) THEN TRUE
    ELSE IF file_dict[i].file_name \notin DOMAIN files THEN FALSE
    ELSE LET raw_file_hash == hash_file(files[file_dict[i].file_name])
         IN  IF raw_file_hash # file_dict[i].hash_value THEN FALSE
             ELSE recheck_passes(file_dict, files, i + 1)

\* fetch, `for filename, fetch_params in self.file_dict.items()`; R is
\* [src, files, calls, downloads]
RECURSIVE fetch_loop(_, _, _)
fetch_loop(R, i, force) ==
    IF i > Len(R.src.file_dict) THEN {R}
    ELSE UNION {
           LET r == fetch_file(R.src.file_dict[i], R.files, force, remote)
               src1 == IF r.status
                       THEN [R.src EXCEPT !.file_dict[i].hash_value = r.hash_value]
                       ELSE [R.src EXCEPT !.fetched_ = FALSE]
           IN  fetch_loop([src |-> src1, files |-> r.files, calls |-> R.calls + 1,
                           downloads |-> R.downloads + (IF r.downloaded THEN 1 ELSE 0)],
                          i + 1, force)
           : remote \in Remotes}

\* DataSource.fetch(force_download=force): every outcome [ret, src, files,
\* calls, downloads]; calls counts the fetch_file calls made
DataSource_fetch(src, files, force) ==
    IF src.fetched_ /\ ~force /\ recheck_passes(src.file_dict, files, 1)
    THEN {[ret |-> TRUE, src |-> src, files |-> files, calls |-> 0, downloads |-> 0]}
    ELSE {[ret |-> R.src.fetched_, src |-> [R.src EXCEPT !.unpacked_ = FALSE],
           files |-> R.files, calls |-> R.calls, downloads |-> R.downloads]
          : R \in fetch_loop([src |-> [src EXCEPT !.fetched_ = TRUE], files |-> files,
                              calls |-> 0, downloads |-> 0], 1, force)}

\* DataSource.unpack(force_unpack=force): every outcome; status is "ok" (the
\* unpack path is returned), "None" or the exception of a file that is not there
DataSource_unpack(src, files, force) ==
    UNION {
      LET out(status, src1) ==
              [status |-> status, src |-> src1, files |-> f.files, calls |-> f.calls,
               downloads |-> f.downloads]
      IN  IF ~f.ret THEN {out("None", f.src)}
          ELSE IF f.src.unpacked_ /\ ~force THEN {out("ok", f.src)}
          ELSE IF \E i \in DOMAIN f.src.file_dict :
                     f.src.file_dict[i].file_name \notin DOMAIN f.files
          THEN {out("FileNotFoundError", f.src)}
          ELSE {out("ok", [f.src EXCEPT !.unpacked_ = TRUE, !.unpack_path_ = "interim"])}
      : f \in IF src.fetched_
              THEN {[ret |-> TRUE, src |-> src, files |-> files, calls |-> 0, downloads |-> 0]}
              ELSE DataSource_fetch(src, files, FALSE)}

\* DataSource.process(): every outcome; invoked tells whether the process
\* function was called, flags are (fetched_, unpacked_) at that moment
DataSource_process(src, files) ==
    IF src.unpacked_
    THEN {[status |-> "ok", src |-> src, files |-> files, invoked |-> TRUE,
           flags |-> <<src.fetched_, src.unpacked_>>]}
    ELSE {IF u.status \in {"ok", "None"}
          THEN [status |-> "ok", src |-> u.src, files |-> u.files, invoked |-> TRUE,
                flags |-> <<u.src.fetched_, u.src.unpacked_>>]
          ELSE [status |-> u.status, src |-> u.src, files |-> u.files, invoked |-> FALSE,
                flags |-> <<u.src.fetched_, u.src.unpacked_>>]
          : u \in DataSource_unpack(src, files, FALSE)}

(***************************************************************************)
(* DatasetGraph: a graph state G is [T, D, K]: the transformers catalog,   *)
(* the datasets catalog and the dataset cache on disk.  Both catalogs are  *)
(* opened with Catalog.load and written through Catalog.__setitem__, so    *)
(* one map stands for the in-memory dict and its directory.                *)
(***************************************************************************)
nodes(T) == UNION {Range(T[e].output_datasets) : e \in DOMAIN T}

is_source(T, edge) == T[edge].input_datasets = <<>>

\* the edges find_child can return for `node`: the first one in catalog
\* order that lists it as an output; that order is the directory's
find_child(T, node) == {e \in DOMAIN T : node \in Range(T[e].output_datasets)}

\* _update_degrees, `for he_name, he in self.transformers.items()` from the
\* i-th edge of `order` on; C is [edges_in, edges_out].  After the two inner
\* loops `node` is the last input, or, for an edge without inputs, still the
\* last output: the else of the second loop sets that one's in-count to 0.
RECURSIVE degrees_from(_, _, _, _)
degrees_from(T, order, i, C) ==
    IF i > Len(order) THEN C
    ELSE LET he == T[order[i]]
             outs == Range(he.output_datasets)
             ins == Range(he.input_datasets)
             counted == [n \in DOMAIN C.edges_in |->
                            IF n \in outs THEN C.edges_in[n] + 1 ELSE C.edges_in[n]]
             node == he.output_datasets[Len(he.output_datasets)]
             edges_in == IF is_source(T, order[i])
                         THEN [counted EXCEPT ![node] = 0]
                         ELSE counted
             edges_out == [n \in (DOMAIN C.edges_out) \cup ins |->
                              (IF n \in DOMAIN C.edges_out THEN C.edges_out[n] ELSE 0)
                              + (IF n \in ins THEN 1 ELSE 0)]
         IN  degrees_from(T, order, i + 1, [edges_in |-> edges_in, edges_out |-> edges_out])

\* _update_degrees with the transformers catalog iterated in `order`
update_degrees(T, order) ==
    degrees_from(T, order, 1, [edges_in |-> [n \in nodes(T) |-> 0],
                               edges_out |-> [n \in nodes(T) |-> 0]])

sources(C) == {n \in DOMAIN C.edges_in : C.edges_in[n] < 1}

sinks(C) == {n \in DOMAIN C.edges_out : C.edges_out[n] < 1}

validate_hypergraph(T, D) ==
    [n \in (DOMAIN D) \cup nodes(T) |-> IF n \in DOMAIN D THEN D[n] ELSE placeholder(n)]

\* check_dataset_hashes with the comparison the other way round
check_catalog_in_disk(D, ds_name, hash_dict) == items_le(D[ds_name].hashes, hash_dict)

\* check_dataset_hashes comparing nothing
check_nothing(D, ds_name, hash_dict) == TRUE

check_dataset_hashes(D, ds_name, hash_dict) ==
    IF D[ds_name].hashes # EmptyRec
    THEN items_le(hash_dict, D[ds_name].hashes)
    ELSE TRUE

RECURSIVE satisfied_from(_, _, _)
satisfied_from(G, input_datasets, i) ==
    IF i > Len(input_datasets) THEN "True"
    ELSE LET ds_name == input_datasets[i]
         IN  IF ds_name \notin DOMAIN G.K THEN "False"
             ELSE IF ds_name \notin DOMAIN G.D THEN "NotFoundError"
             ELSE IF ~check_dataset_hashes(G.D, ds_name, G.K[ds_name].metadata.hashes)
                  THEN "False"
             ELSE satisfied_from(G, input_datasets, i + 1)

\* "True", "False" or the exception raised
fully_satisfied(G, edge) ==
    IF is_source(G.T, edge) THEN "True"
    ELSE satisfied_from(G, G.T[edge].input_datasets, 1)

\* Dataset.from_disk(name, check_hashes=True): the exception, or "ok" and the dataset
from_disk(G, dataset_name) ==
    IF dataset_name \notin DOMAIN G.D THEN [status |-> "KeyError", ds |-> NoneDS]
    ELSE IF dataset_name \notin DOMAIN G.K THEN [status |-> "FileNotFoundError", ds |-> NoneDS]
    ELSE LET catalog_hashes == G.D[dataset_name].hashes
             f == G.K[dataset_name]
         IN  IF ~items_le(catalog_hashes, f.metadata.hashes)
             THEN [status |-> "ValidationError", ds |-> NoneDS]
             ELSE IF ~items_le(catalog_hashes, f.dataset.hashes)
             THEN [status |-> "ValidationError", ds |-> NoneDS]
             ELSE [status |-> "ok", ds |-> f.dataset]

\* Dataset.dump(exists_ok=True): `metadata` is bound before update_hashes
\* rebinds self['metadata'], so the .metadata file gets the old mapping
dump(D, K, ds, update_catalog) ==
    LET metadata == metadata_of(ds)
        ds1 == update_hashes(ds)
    IN  [D |-> IF update_catalog THEN Put(D, ds1.dataset_name, metadata_of(ds1)) ELSE D,
         K |-> Put(K, ds1.dataset_name, [metadata |-> metadata, dataset |-> ds1])]

\* from_disk without the comparison against the catalog
from_disk_unchecked(G, dataset_name, metadata_only) ==
    IF dataset_name \notin DOMAIN G.D
    THEN [status |-> "KeyError", ds |-> NoneDS, meta |-> NoMeta]
    ELSE IF dataset_name \notin DOMAIN G.K
    THEN [status |-> "FileNotFoundError", ds |-> NoneDS, meta |-> NoMeta]
    ELSE [status |-> "ok",
          ds |-> IF metadata_only THEN NoneDS ELSE G.K[dataset_name].dataset,
          meta |-> IF metadata_only THEN G.K[dataset_name].metadata ELSE NoMeta]

\* Dataset.from_disk(name, metadata_only, errors=True, check_hashes=True):
\* the exception, or "ok" with the Dataset or (metadata_only) the .metadata record
Dataset_from_disk(G, dataset_name, metadata_only) ==
    IF dataset_name \notin DOMAIN G.D
    THEN [status |-> "KeyError", ds |-> NoneDS, meta |-> NoMeta]
    ELSE IF dataset_name \notin DOMAIN G.K
    THEN [status |-> "FileNotFoundError", ds |-> NoneDS, meta |-> NoMeta]
    ELSE LET catalog_hashes == G.D[dataset_name].hashes
             f == G.K[dataset_name]
         IN  IF ~items_le(catalog_hashes, f.metadata.hashes)
             THEN [status |-> "ValidationError", ds |-> NoneDS, meta |-> NoMeta]
             ELSE IF metadata_only
             THEN [status |-> "ok", ds |-> NoneDS, meta |-> f.metadata]
             ELSE [status |-> from_disk(G, dataset_name).status,
                   ds |-> from_disk(G, dataset_name).ds, meta |-> NoMeta]

\* dump writing whether or not the .metadata file exists
dump_overwriting(D, K, ds, exists_ok, update_catalog) ==
    [status |-> "ok", D |-> dump(D, K, ds, update_catalog).D,
     K |-> dump(D, K, ds, update_catalog).K, ds |-> update_hashes(ds), matching |-> FALSE]

\* Dataset.dump(exists_ok, dump_metadata=True, update_catalog): the hashes of
\* self are updated first; an existing .metadata file without exists_ok raises
\* ObjectCollision, with one message when `metadata` is within the cached
\* metadata (matching) and another when it is not
Dataset_dump(D, K, ds, exists_ok, update_catalog) ==
    LET metadata == metadata_of(ds)
        ds1 == update_hashes(ds)
        name == ds.dataset_name
    IN  IF name \in DOMAIN K /\ ~exists_ok
        THEN [status |-> "ObjectCollision", D |-> D, K |-> K, ds |-> ds1,
              matching |-> (metadata = K[name].metadata)]
        ELSE [status |-> "ok", D |-> dump(D, K, ds, update_catalog).D,
              K |-> dump(D, K, ds, update_catalog).K, ds |-> ds1, matching |-> FALSE]

\* dict(items) for a list of (key, value) pairs: the last pair of a key wins
dict(items) ==
    [k \in {items[i][1] : i \in DOMAIN items} |->
        items[CHOOSE i \in DOMAIN items :
                 /\ items[i][1] = k
                 /\ \A j \in DOMAIN items : items[j][1] = k => j <= i][2]]

\* follows_parents when the parents are always queued
always_follows(exhaustive, satisfied) == TRUE

\* traverse, `if exhaustive or not satisfied`: whether the parents are queued
follows_parents(exhaustive, satisfied) == exhaustive \/ satisfied = "False"

RECURSIVE traverse_loop(_, _, _, _, _, _)
traverse_loop(G, pop_last, exhaustive, queue, visited, edges) ==
    IF queue = <<>>
    THEN {[status |-> "ok", visited |-> Reverse(visited), edges |-> Reverse(edges)]}
    ELSE
      LET vertex == IF pop_last THEN queue[Len(queue)] ELSE Head(queue)
          rest == IF pop_last THEN SubSeq(queue, 1, Len(queue) - 1) ELSE Tail(queue)
      IN  IF vertex \in Range(visited)
          THEN traverse_loop(G, pop_last, exhaustive, rest, visited, edges)
          ELSE
            LET visited1 == Append(visited, vertex)
                raised == [status |-> "NotFoundError", visited |-> visited1, edges |-> edges]
            IN  IF find_child(G.T, vertex) = {} THEN {raised}
                ELSE UNION {
                  LET satisfied == fully_satisfied(G, edge)
                      parents == Range(G.T[edge].input_datasets)
                  IN  IF satisfied = "NotFoundError" THEN {raised}
                      ELSE IF follows_parents(exhaustive, satisfied)
                      THEN UNION {traverse_loop(G, pop_last, exhaustive, rest \o p,
                                                visited1, Append(edges, edge))
                                  : p \in Perms(parents \ Range(visited1))}
                      ELSE traverse_loop(G, pop_last, exhaustive, rest,
                                         visited1, Append(edges, edge))
                  : edge \in find_child(G.T, vertex)}

\* every (nodes, edges) answer traverse can give; kind is "breadth-first" or "depth-first"
traverse(G, node, kind, exhaustive) ==
    traverse_loop(G, kind = "depth-first", exhaustive, <<node>>, <<>>, <<>>)

\* process_edge, the body of `for ds_name, ds in dsdict.items()`; S is
\* [D, K, success, wrote], on_disk is processed_datasets()
process_output(S, ds_name, ds0, write_dataset, overwrite_catalog, on_disk) ==
    IF ds0 = NoneDS THEN [S EXCEPT !.success = FALSE]
    ELSE
      LET ds == update_hashes(ds0)
          D1 == IF overwrite_catalog THEN Put(S.D, ds_name, metadata_of(ds)) ELSE S.D
      IN  IF /\ ~overwrite_catalog
             /\ ds_name \in DOMAIN S.D
             /\ ~verify_hashes(ds, S.D[ds_name].hashes)
          THEN [S EXCEPT !.success = FALSE]
          ELSE IF write_dataset /\ (overwrite_catalog \/ ds_name \notin on_disk)
          THEN LET w == dump(D1, S.K, ds, overwrite_catalog)
               IN  [D |-> w.D, K |-> w.K, success |-> S.success,
                    wrote |-> S.wrote \cup {ds_name}]
          ELSE [S EXCEPT !.D = D1]

RECURSIVE process_outputs(_, _, _, _, _, _)
process_outputs(S, dsdict, todo, write_dataset, overwrite_catalog, on_disk) ==
    IF todo = {} THEN S
    ELSE LET ds_name == CHOOSE n \in todo : TRUE
         IN  process_outputs(
                 process_output(S, ds_name, dsdict[ds_name], write_dataset,
                                overwrite_catalog, on_disk),
                 dsdict, todo \ {ds_name}, write_dataset, overwrite_catalog, on_disk)

\* process_edge, `for xform_dict in edge.get('transformations', ())`; R is the
\* running result [status, D, K, dsdict, ran, wrote]
RECURSIVE process_steps(_, _, _, _, _, _)
process_steps(T, R, steps, i, write_dataset, overwrite_catalog) ==
    IF i > Len(steps) THEN R
    ELSE
      LET dsdict == transformer(steps[i], R.dsdict)
          after(S) ==
              LET R1 == [status |-> IF S.success THEN "ok" ELSE "None",
                         D |-> validate_hypergraph(T, S.D), K |-> S.K,
                         dsdict |-> dsdict, ran |-> R.ran + 1, wrote |-> S.wrote]
              IN  IF ~S.success THEN R1
                  ELSE process_steps(T, R1, steps, i + 1, write_dataset, overwrite_catalog)
      IN  after(process_outputs([D |-> R.D, K |-> R.K, success |-> TRUE, wrote |-> R.wrote],
                                dsdict, DOMAIN dsdict, write_dataset, overwrite_catalog,
                                DOMAIN R.K))

\* process_edge, `for in_ds in edge.get('input_datasets', [])`: the first
\* exception, or "ok" and the input dsdict
RECURSIVE load_inputs(_, _, _, _)
load_inputs(G, input_datasets, i, dsdict) ==
    IF i > Len(input_datasets) THEN [status |-> "ok", dsdict |-> dsdict]
    ELSE LET in_ds == input_datasets[i]
         IN  IF in_ds \notin DOMAIN G.D THEN [status |-> "NotFoundError", dsdict |-> dsdict]
             ELSE LET r == from_disk(G, in_ds)
                  IN  IF r.status # "ok" THEN [status |-> r.status, dsdict |-> dsdict]
                      ELSE load_inputs(G, input_datasets, i + 1, Put(dsdict, in_ds, r.ds))

\* status is "ok" (a dsdict is returned), "None" (None is returned) or the
\* exception raised; ran counts the transformer steps executed, wrote is the
\* set of datasets dumped to disk
process_edge(G, edge_name, write_dataset, overwrite_catalog) ==
    LET R0 == [status |-> "ok", D |-> G.D, K |-> G.K, dsdict |-> EmptyMap,
               ran |-> 0, wrote |-> {}]
    IN  IF overwrite_catalog /\ ~write_dataset THEN [R0 EXCEPT !.status = "ValueError"]
        ELSE IF fully_satisfied(G, edge_name) = "NotFoundError"
        THEN [R0 EXCEPT !.status = "NotFoundError"]
        ELSE IF fully_satisfied(G, edge_name) = "False"
        THEN [R0 EXCEPT !.status = "EasydataError"]
        ELSE
          LET edge == G.T[edge_name]
              run(ins) ==
                  IF ins.status # "ok" THEN [R0 EXCEPT !.status = ins.status]
                  ELSE process_steps(G.T, [R0 EXCEPT !.dsdict = ins.dsdict],
                                     edge.transformations, 1, write_dataset, overwrite_catalog)
          IN  run(load_inputs(G, edge.input_datasets, 1, EmptyMap))

\* the loop over the edge list going on after an edge has failed
RECURSIVE run_all_edges(_, _, _, _, _)
run_all_edges(T, R, edge_list, write_datasets, overwrite_catalog) ==
    IF R.done = Len(edge_list) THEN R
    ELSE
      LET after(r) ==
              run_all_edges(T, [status |-> IF R.status # "ok" THEN R.status ELSE r.status,
                                D |-> r.D, K |-> r.K, dsdict |-> r.dsdict,
                                ran |-> R.ran + r.ran, wrote |-> R.wrote \cup r.wrote,
                                done |-> R.done + 1],
                            edge_list, write_datasets, overwrite_catalog)
      IN  after(process_edge([T |-> T, D |-> R.D, K |-> R.K], edge_list[R.done + 1],
                             write_datasets, overwrite_catalog))

\* generate, `for edge in edge_list`; R is [status, D, K, dsdict, ran, wrote, done]
RECURSIVE generate_edges(_, _, _, _, _)
generate_edges(T, R, edge_list, write_datasets, overwrite_catalog) ==
    IF R.done = Len(edge_list) THEN R
    ELSE
      LET after(r) ==
              LET R1 == [status |-> r.status, D |-> r.D, K |-> r.K, dsdict |-> r.dsdict,
                         ran |-> R.ran + r.ran, wrote |-> R.wrote \cup r.wrote,
                         done |-> IF r.status = "ok" THEN R.done + 1 ELSE R.done]
              IN  IF r.status # "ok" THEN R1
                  ELSE generate_edges(T, R1, edge_list, write_datasets, overwrite_catalog)
      IN  after(process_edge([T |-> T, D |-> R.D, K |-> R.K], edge_list[R.done + 1],
                             write_datasets, overwrite_catalog))

\* every outcome of generate: one per answer traverse can give
generate(G, dataset_name, write_datasets, overwrite_catalog, exhaustive) ==
    {LET R0 == [status |-> tr.status, D |-> G.D, K |-> G.K, dsdict |-> EmptyMap,
                ran |-> 0, wrote |-> {}, done |-> 0]
         result(R) ==
             [status |-> R.status, D |-> R.D, K |-> R.K, dsdict |-> R.dsdict, ran |-> R.ran,
              wrote |-> R.wrote, done |-> R.done, visited |-> tr.visited, edges |-> tr.edges]
     IN  result(IF tr.status # "ok" THEN R0
                ELSE generate_edges(G.T, R0, tr.edges, write_datasets, overwrite_catalog))
     : tr \in traverse(G, dataset_name, "breadth-first", exhaustive)}

\* Dataset.from_catalog(name): every outcome; ret is the Dataset returned
\* (NoneDS for None), way is how it was obtained
from_catalog(G, dataset_name) ==
    LET D1 == validate_hypergraph(G.T, G.D)
    IN  IF dataset_name \notin DOMAIN D1
        THEN {[status |-> "AttributeError", ret |-> NoneDS, D |-> D1, K |-> G.K, ran |-> 0,
               way |-> "from_catalog"]}
        ELSE
          LET catalog_hashes == D1[dataset_name].hashes
              outcome(r) ==
                  LET out(status, ret) == [status |-> status, ret |-> ret, D |-> r.D, K |-> r.K,
                                           ran |-> r.ran, way |-> "from_catalog"]
                  IN  IF r.status \notin {"ok", "None"} THEN out(r.status, NoneDS)
                      ELSE IF r.status = "None" \/ dataset_name \notin DOMAIN r.dsdict
                      THEN out("ok", NoneDS)
                      ELSE IF r.dsdict[dataset_name] = NoneDS THEN out("AttributeError", NoneDS)
                      ELSE IF ~verify_hashes(r.dsdict[dataset_name], catalog_hashes)
                      THEN out("ValidationError", NoneDS)
                      ELSE out("ok", r.dsdict[dataset_name])
          IN  {outcome(r) : r \in generate([T |-> G.T, D |-> D1, K |-> G.K], dataset_name,
                                           TRUE, FALSE, FALSE)}

\* Dataset.load(name): every outcome.  DatasetGraph() adds the placeholders,
\* from_disk is tried, and any exception falls back to from_catalog
Dataset_load(G, dataset_name) ==
    LET D1 == validate_hypergraph(G.T, G.D)
        G1 == [T |-> G.T, D |-> D1, K |-> G.K]
        tried(f) ==
            IF f.status = "ok" /\ verify_hashes(f.ds, D1[dataset_name].hashes)
            THEN {[status |-> "ok", ret |-> f.ds, D |-> D1, K |-> G.K, ran |-> 0,
                   way |-> "from_disk"]}
            ELSE from_catalog(G1, dataset_name)
    IN  IF dataset_name \notin DOMAIN D1
        THEN {[status |-> "NotFoundError", ret |-> NoneDS, D |-> D1, K |-> G.K, ran |-> 0,
               way |-> "none"]}
        ELSE tried(from_disk(G1, dataset_name))

\* the loop over the outputs left out altogether
skip_outputs(R, order, i, a) == {R}

\* add_edge, `for ds in set(output_datasets)` in the order `order`; R is
\* [status, T, D, K, ran, edge_name].  generate's return value is not looked at.
RECURSIVE add_edge_outputs(_, _, _, _)
add_edge_outputs(R, order, i, a) ==
    IF i > Len(order) THEN {R}
    ELSE
      LET ds == order[i]
          regenerate(overwrite_catalog) ==
              UNION {
                LET R1 == [R EXCEPT !.status = IF g.status \in {"ok", "None"}
                                                THEN "ok" ELSE g.status,
                                    !.D = g.D, !.K = g.K, !.ran = R.ran + g.ran]
                IN  IF R1.status # "ok" THEN {R1}
                    ELSE add_edge_outputs(R1, order, i + 1, a)
                : g \in generate([T |-> R.T, D |-> R.D, K |-> R.K], ds, TRUE,
                                 overwrite_catalog, FALSE)}
      IN  IF ds \notin DOMAIN R.D
          THEN IF a.write_catalog
               THEN IF a.generate THEN regenerate(TRUE)
                    ELSE {[R EXCEPT !.status = "EasydataError"]}
               ELSE add_edge_outputs(R, order, i + 1, a)
          ELSE IF a.overwrite_catalog /\ a.generate
               THEN regenerate(a.overwrite_catalog)
               ELSE add_edge_outputs(R, order, i + 1, a)

\* the default edge name f"_{'_'.join(output_datasets)}"
default_edge_name(output_datasets) == <<"_">> \o output_datasets

\* the collision test with the refusal left out
never_collides(T, edge_name, overwrite_catalog) == FALSE

\* add_edge, `if edge_name in self.transformers and not overwrite_catalog`
collides(T, edge_name, overwrite_catalog) == edge_name \in DOMAIN T /\ ~overwrite_catalog

\* every outcome of add_edge(**a): status is "ok" or the exception raised.
\* a.edge_name = <<>> stands for None, a.pipeline_given = FALSE for
\* transformer_pipeline=None.
add_edge(G, a) ==
    LET edge_name == IF a.edge_name = <<>> THEN default_edge_name(a.output_datasets)
                     ELSE a.edge_name
        R0 == [status |-> "ok", T |-> G.T, D |-> G.D, K |-> G.K, ran |-> 0,
               edge_name |-> edge_name]
        transformer_pipeline == IF a.pipeline_given THEN a.transformer_pipeline ELSE <<>>
        catalog_entry == [input_datasets |-> a.input_datasets,
                          output_datasets |-> a.output_datasets,
                          transformations |-> transformer_pipeline]
    IN  IF ~a.pipeline_given /\ a.input_datasets = <<>>
        THEN {[R0 EXCEPT !.status = "ValueError"]}
        ELSE IF collides(G.T, edge_name, a.overwrite_catalog)
        THEN {[R0 EXCEPT !.status = "ObjectCollision"]}
        ELSE
          LET T1 == IF a.write_catalog THEN Put(G.T, edge_name, catalog_entry) ELSE G.T
              D1 == IF a.write_catalog
                    THEN [n \in (DOMAIN G.D) \cup Range(a.input_datasets) |->
                             IF n \in DOMAIN G.D THEN G.D[n] ELSE placeholder(n)]
                    ELSE G.D
          IN  UNION {add_edge_outputs([R0 EXCEPT !.T = T1, !.D = D1], order, 1, a)
                     : order \in Perms(Range(a.output_datasets))}

\* what Dataset.from_datasource builds from the named DataSource: the
\* processing function is the DataSource's, so the payload is fixed by its name
datasource_payload(datasource_name) == 1

\* add_source(datasource_name=..., output_dataset=..., ...): the one-step
\* pipeline [dataset_from_datasource] handed to add_edge
add_source(G, datasource_name, output_dataset, write_catalog, overwrite_catalog) ==
    LET output_datasets == <<output_dataset>>
        datasource_transformer ==
            [fn |-> "make", outs |-> {output_datasets[1]},
             seed |-> datasource_payload(datasource_name)]
    IN  add_edge(G, [input_datasets |-> <<>>, output_datasets |-> output_datasets,
                     edge_name |-> <<>>, pipeline_given |-> TRUE,
                     transformer_pipeline |-> <<datasource_transformer>>,
                     write_catalog |-> write_catalog,
                     overwrite_catalog |-> overwrite_catalog, generate |-> TRUE])

(***************************************************************************)
(* Catalog (data/catalog.py).  A catalog directory is [exists, files];     *)
(* files maps a file name <<stem, suffix>> to the file's text.  A record   *)
(* is a mapping from member names to values; its JSON text is the list of  *)
(* its <<name, value>> members in sorted-key order.                        *)
(***************************************************************************)
extension == "json"

CatalogKeys == {"k1", "k2"}

\* the member names of the records, in sorted order
MemberNames == <<"dataset_name", "hashes", "n">>

CatalogValues ==
    { [dataset_name |-> "k1"],
      [n |-> 0, dataset_name |-> "k1"],
      [hashes |-> "sha1:0", n |-> 1] }

\* json.dumps(obj, indent=2, sort_keys=True)
save_json(obj) ==
    LET names == SelectSeq(MemberNames, LAMBDA m : m \in DOMAIN obj)
    IN  [i \in 1 .. Len(names) |-> <<names[i], obj[names[i]]>>]

\* json.load(f)
load_json(text) ==
    [m \in {text[i][1] : i \in DOMAIN text} |->
        text[CHOOSE i \in DOMAIN text : text[i][1] = m][2]]

\* catalog_dir_fq / f"{key}.{self.extension}"
key_file(key) == <<key, extension>>

\* Catalog._load(return_dict=True): glob(f"*.{extension}"), keyed by file stem
catalog_load(files) ==
    LET matched == {f \in DOMAIN files : f[2] = extension}
    IN  [key \in {f[1] : f \in matched} |-> load_json(files[<<key, extension>>])]

\* Catalog._save_item(key), on C = [data, files]
save_item(C, key) == [C EXCEPT !.files = Put(C.files, key_file(key), save_json(C.data[key]))]

\* Catalog._del_item(key): filename.unlink()
del_item(C, key) == [C EXCEPT !.files = Drop(C.files, key_file(key))]

\* Catalog._memory_setitem: no file is written
memory_setitem(C, key, value) == [C EXCEPT !.data = Put(C.data, key, value)]

\* Catalog._disk_setitem, which is Catalog.__setitem__
disk_setitem(C, key, value) == save_item([C EXCEPT !.data = Put(C.data, key, value)], key)

\* Catalog.__init__ never removing the directory
init_keeping_directory(dir, data, delete) ==
    [dir |-> [exists |-> TRUE, files |-> dir.files],
     data |-> [k \in (DOMAIN catalog_load(dir.files)) \cup (DOMAIN data) |->
                  IF k \in DOMAIN data THEN data[k] ELSE catalog_load(dir.files)[k]]]

\* Catalog.__init__(name, data=data, create=True, delete=delete), merge_priority="data":
\* the directory afterwards and self.data
Catalog_init(dir, data, delete) ==
    LET files == IF dir.exists /\ delete THEN EmptyMap ELSE dir.files
        disk_data == catalog_load(files)
    IN  [dir |-> [exists |-> TRUE, files |-> files],
         data |-> IF data # EmptyMap
                  THEN [k \in (DOMAIN disk_data) \cup (DOMAIN data) |->
                           IF k \in DOMAIN data THEN data[k] ELSE disk_data[k]]
                  ELSE disk_data]

NoDir == [exists |-> FALSE, files |-> EmptyMap]
NoCatalog == [opened |-> "none", op |-> "", status |-> "", legacy |-> EmptyMap,
              replace |-> FALSE]

\* a file in the directory that is not a catalog record
ForeignFiles == [f \in {<<"README", "md">>} |-> <<>>]

\* the legacy combined files from_old_catalog is given, as load_json reads them
LegacyFiles ==
    { EmptyMap,
      [k \in {"k1"} |-> [dataset_name |-> "k1"]],
      [k \in {"k1", "k2"} |-> IF k = "k1" THEN [dataset_name |-> "k1"]
                                           ELSE [hashes |-> "sha1:0", n |-> 1]] }

(***************************************************************************)
(* The DatasetGraph as a state machine                                     *)
(***************************************************************************)
G0 == [T |-> transformers, D |-> datasets, K |-> cache]

\* cached on disk, in the catalog with a hash record, and the two records agree
CachedFresh(G, n) ==
    /\ n \in DOMAIN G.K
    /\ n \in DOMAIN G.D
    /\ G.D[n].hashes # EmptyRec
    /\ G.K[n].metadata.hashes = G.D[n].hashes

NoLast == [op |-> "init", node |-> "", edge |-> <<>>, args |-> <<>>,
           write |-> FALSE, overwrite |-> FALSE, exhaustive |-> FALSE, kind |-> "",
           status |-> "", visited |-> <<>>, edges |-> <<>>, ran |-> 0, done |-> 0,
           fresh |-> FALSE, premeta |-> NoMeta, retmeta |-> NoMeta, preD |-> {}, preT |-> {}]

NoHist == [armed |-> FALSE, mutatedA |-> FALSE, matchedA |-> FALSE]

\* the edges the calls below register
MakeStep(n, seed) == [fn |-> "make", outs |-> {n}, seed |-> seed]
EdgeMenu ==
    { [input_datasets |-> <<"A">>, output_datasets |-> <<"B">>, edge_name |-> <<>>,
       pipeline_given |-> TRUE, transformer_pipeline |-> <<MakeStep("B", 0)>>],
      [input_datasets |-> <<"A">>, output_datasets |-> <<"B">>, edge_name |-> <<>>,
       pipeline_given |-> FALSE, transformer_pipeline |-> <<>>],
      [input_datasets |-> <<"A", "B">>, output_datasets |-> <<"C">>, edge_name |-> <<>>,
       pipeline_given |-> TRUE, transformer_pipeline |-> <<MakeStep("C", 0)>>],
      [input_datasets |-> <<"B">>, output_datasets |-> <<"C">>, edge_name |-> <<>>,
       pipeline_given |-> TRUE, transformer_pipeline |-> <<MakeStep("C", 0)>>] }

Init ==
    /\ transformers = EmptyMap
    /\ datasets = EmptyMap
    /\ cache = EmptyMap
    /\ last = NoLast
    /\ hist = NoHist
    /\ budget = MaxExternal
    /\ cdata = EmptyMap
    /\ cdisk = NoDir
    /\ cstate = NoCatalog
    /\ held = NoneDS
    /\ dsrc = NoSource
    /\ rawfiles = EmptyMap

\* no call is in progress: the caller has taken the last call's result
Idle == last = NoLast

\* the caller takes the result (or the exception) of the call it made
Return ==
    /\ last # NoLast
    /\ last' = NoLast
    /\ held' = NoneDS
    /\ UNCHANGED <<transformers, datasets, cache, hist, budget>>
    /\ UNCHANGED <<cdata, cdisk, cstate, dsrc, rawfiles>>

\* DatasetGraph(): _update_catalogs reloads both catalogs and validates
NewGraph ==
    /\ Idle
    /\ datasets' = validate_hypergraph(transformers, datasets)
    /\ last' = [NoLast EXCEPT !.op = "DatasetGraph", !.status = "ok"]
    /\ hist' = NoHist
    /\ UNCHANGED <<transformers, cache, budget>>
    /\ UNCHANGED catVars

AddEdge ==
    /\ Idle
    /\ \E m \in EdgeMenu, write_catalog, overwrite_catalog, gen \in BOOLEAN :
      LET a == [input_datasets |-> m.input_datasets, output_datasets |-> m.output_datasets,
                edge_name |-> m.edge_name, pipeline_given |-> m.pipeline_given,
                transformer_pipeline |-> m.transformer_pipeline,
                write_catalog |-> write_catalog, overwrite_catalog |-> overwrite_catalog,
                generate |-> gen]
      IN  \E r \in add_edge(G0, a) :
            /\ transformers' = r.T
            /\ datasets' = r.D
            /\ cache' = r.K
            /\ last' = [NoLast EXCEPT !.op = "add_edge", !.edge = r.edge_name,
                            !.args = <<m.input_datasets, m.output_datasets, m.pipeline_given,
                                       write_catalog, gen>>,
                            !.overwrite = overwrite_catalog,
                            !.status = r.status, !.ran = r.ran,
                            !.preD = DOMAIN datasets, !.preT = DOMAIN transformers]
            /\ hist' = NoHist
            /\ UNCHANGED budget
            /\ UNCHANGED catVars

AddSource ==
    /\ Idle
    /\ \E datasource_name \in {"A"}, write_catalog, overwrite_catalog \in BOOLEAN :
      \E r \in add_source(G0, datasource_name, "A", write_catalog, overwrite_catalog) :
        /\ transformers' = r.T
        /\ datasets' = r.D
        /\ cache' = r.K
        /\ last' = [NoLast EXCEPT !.op = "add_source", !.edge = r.edge_name,
                        !.args = <<datasource_name, write_catalog>>,
                        !.overwrite = overwrite_catalog,
                        !.status = r.status, !.ran = r.ran,
                        !.preD = DOMAIN datasets, !.preT = DOMAIN transformers]
        /\ hist' = NoHist
        /\ UNCHANGED budget
        /\ UNCHANGED catVars

Traverse ==
    /\ Idle
    /\ \E node \in Names, kind \in {"breadth-first", "depth-first"}, exhaustive \in BOOLEAN :
      \E tr \in traverse(G0, node, kind, exhaustive) :
        /\ last' = [NoLast EXCEPT !.op = "traverse", !.node = node, !.kind = kind,
                        !.exhaustive = exhaustive, !.status = tr.status,
                        !.visited = tr.visited, !.edges = tr.edges]
        /\ UNCHANGED <<transformers, datasets, cache, hist, budget>>
        /\ UNCHANGED catVars

FullySatisfied ==
    /\ Idle
    /\ \E edge \in DOMAIN transformers :
        /\ last' = [NoLast EXCEPT !.op = "fully_satisfied", !.edge = edge,
                        !.status = fully_satisfied(G0, edge)]
        /\ UNCHANGED <<transformers, datasets, cache, hist, budget>>
        /\ UNCHANGED catVars

ProcessEdge ==
    /\ Idle
    /\ \E edge \in DOMAIN transformers, write_dataset, overwrite_catalog \in BOOLEAN :
      \E r \in {process_edge(G0, edge, write_dataset, overwrite_catalog)} :
          /\ datasets' = r.D
          /\ cache' = r.K
          /\ last' = [NoLast EXCEPT !.op = "process_edge", !.edge = edge,
                          !.write = write_dataset, !.overwrite = overwrite_catalog,
                          !.status = r.status, !.ran = r.ran]
          /\ hist' = NoHist
          /\ UNCHANGED <<transformers, budget>>
          /\ UNCHANGED catVars

Generate ==
    /\ Idle
    /\ \E dataset_name \in Names, write_datasets, overwrite_catalog, exhaustive \in BOOLEAN :
      \E r \in generate(G0, dataset_name, write_datasets, overwrite_catalog, exhaustive) :
        /\ datasets' = r.D
        /\ cache' = r.K
        /\ last' = [NoLast EXCEPT !.op = "generate", !.node = dataset_name,
                        !.write = write_datasets, !.overwrite = overwrite_catalog,
                        !.exhaustive = exhaustive, !.status = r.status,
                        !.visited = r.visited, !.edges = r.edges, !.ran = r.ran,
                        !.done = r.done,
                        !.fresh = CachedFresh(G0, dataset_name),
                        !.premeta = IF dataset_name \in DOMAIN cache
                                    THEN cache[dataset_name].metadata ELSE NoMeta,
                        !.retmeta = IF r.status = "ok" /\ dataset_name \in DOMAIN r.dsdict
                                    THEN metadata_of(r.dsdict[dataset_name]) ELSE NoMeta]
        /\ hist' = IF dataset_name = "C" /\ r.status = "ok"
                   THEN [NoHist EXCEPT !.armed = TRUE] ELSE NoHist
        /\ UNCHANGED <<transformers, budget>>
        /\ UNCHANGED catVars

\* ds = Dataset.load(dataset_name)
Load ==
    /\ Idle
    /\ \E dataset_name \in Names :
      \E r \in Dataset_load(G0, dataset_name) :
        /\ datasets' = r.D
        /\ cache' = r.K
        /\ held' = r.ret
        /\ last' = [NoLast EXCEPT !.op = "load", !.node = dataset_name,
                        !.status = r.status, !.kind = r.way, !.ran = r.ran,
                        !.fresh = /\ dataset_name \in DOMAIN cache
                                  /\ dataset_name \in DOMAIN datasets
                                  /\ from_disk(G0, dataset_name).status = "ok",
                        !.preD = DOMAIN datasets]
    /\ hist' = NoHist
    /\ UNCHANGED <<transformers, budget>>
    /\ UNCHANGED <<cdata, cdisk, cstate, dsrc, rawfiles>>

\* outside the program: a hash value in a cached dataset's .metadata record changes
ExternalChange ==
    /\ Idle
    /\ budget > 0
    /\ \E n \in DOMAIN cache, k \in Fields, d \in Digests :
        /\ k \in DOMAIN cache[n].metadata.hashes
        /\ d # cache[n].metadata.hashes[k]
        /\ cache' = [cache EXCEPT ![n].metadata.hashes[k] = d]
        /\ last' = NoLast
        /\ hist' = IF hist.armed /\ n = "A"
                   THEN [hist EXCEPT !.mutatedA = TRUE,
                                     !.matchedA = CachedFresh(G0, "A")]
                   ELSE hist
    /\ budget' = budget - 1
    /\ UNCHANGED <<transformers, datasets>>
    /\ UNCHANGED catVars

\* outside the program: a cached dataset's files are removed
ExternalRemove ==
    /\ Idle
    /\ budget > 0
    /\ \E n \in DOMAIN cache :
        /\ cache' = Drop(cache, n)
        /\ last' = NoLast
    /\ hist' = NoHist
    /\ budget' = budget - 1
    /\ UNCHANGED <<transformers, datasets>>
    /\ UNCHANGED catVars

Next ==
    \/ NewGraph
    \/ AddEdge
    \/ AddSource
    \/ Traverse
    \/ FullySatisfied
    \/ ProcessEdge
    \/ Generate
    \/ Load
    \/ ExternalChange
    \/ ExternalRemove
    \/ Return

Spec == Init /\ [][Next]_vars

(***************************************************************************)
(* The Catalog as a state machine: one catalog object over one directory   *)
(***************************************************************************)
C0 == [data |-> cdata, files |-> cdisk.files]

InitCatalog ==
    /\ transformers = EmptyMap
    /\ datasets = EmptyMap
    /\ cache = EmptyMap
    /\ last = NoLast
    /\ hist = NoHist
    /\ budget = 0
    /\ cdata = EmptyMap
    /\ cdisk \in {NoDir, [exists |-> TRUE, files |-> ForeignFiles]}
    /\ cstate = NoCatalog
    /\ held = NoneDS
    /\ dsrc = NoSource
    /\ rawfiles = EmptyMap

\* Catalog.load(name, create=create)
CatalogLoad ==
    /\ cstate.opened = "none"
    /\ \E create \in BOOLEAN :
        IF ~cdisk.exists /\ ~create
        THEN /\ cstate' = [NoCatalog EXCEPT !.op = "load", !.status = "FileNotFoundError"]
             /\ UNCHANGED <<cdata, cdisk>>
        ELSE \E c \in {Catalog_init(cdisk, EmptyMap, FALSE)} :
               /\ cdata' = c.data
               /\ cdisk' = IF create THEN c.dir ELSE cdisk
               /\ cstate' = [NoCatalog EXCEPT !.opened = "load", !.op = "load",
                                              !.status = "ok"]
    /\ UNCHANGED graphVars

\* Catalog.from_old_catalog(catalog_file_fq, replace=replace)
FromOldCatalog ==
    /\ cstate.opened = "none"
    /\ \E catalog_dict \in LegacyFiles, replace \in BOOLEAN :
        IF cdisk.exists /\ ~replace
        THEN /\ cstate' = [NoCatalog EXCEPT !.op = "from_old_catalog",
                                            !.status = "FileExistsError"]
             /\ UNCHANGED <<cdata, cdisk>>
        ELSE \E c \in {Catalog_init(cdisk, catalog_dict, replace)} :
               /\ cdata' = c.data
               /\ cdisk' = c.dir
               /\ cstate' = [opened |-> "from_old_catalog", op |-> "from_old_catalog",
                             status |-> "ok", legacy |-> catalog_dict, replace |-> replace]
    /\ UNCHANGED graphVars

\* Catalog.create(name, data=data, replace=replace): cls(name, create=True,
\* delete=replace, data=data); nothing is raised for a directory that exists
CatalogCreate ==
    /\ cstate.opened = "none"
    /\ \E data \in LegacyFiles, replace \in BOOLEAN :
        \E c \in {Catalog_init(cdisk, data, replace)} :
          /\ cdata' = c.data
          /\ cdisk' = c.dir
          /\ cstate' = [opened |-> "create", op |-> "create", status |-> "ok",
                        legacy |-> data, replace |-> replace]
    /\ UNCHANGED graphVars

\* catalog[key] = value
CatalogSet ==
    /\ cstate.opened # "none"
    /\ \E key \in CatalogKeys, value \in CatalogValues :
        \E c \in {disk_setitem(C0, key, value)} :
          /\ cdata' = c.data
          /\ cdisk' = [cdisk EXCEPT !.files = c.files]
          /\ cstate' = [cstate EXCEPT !.op = "__setitem__", !.status = "ok"]
    /\ UNCHANGED graphVars

\* del catalog[key]
CatalogDelete ==
    /\ cstate.opened # "none"
    /\ \E key \in CatalogKeys :
        IF key \notin DOMAIN cdata
        THEN /\ cstate' = [cstate EXCEPT !.op = "__delitem__", !.status = "KeyError"]
             /\ UNCHANGED <<cdata, cdisk>>
        ELSE /\ cdata' = Drop(cdata, key)
             /\ IF key_file(key) \notin DOMAIN cdisk.files
                THEN /\ cstate' = [cstate EXCEPT !.op = "__delitem__",
                                                 !.status = "FileNotFoundError"]
                     /\ UNCHANGED cdisk
                ELSE /\ cdisk' = [cdisk EXCEPT !.files = del_item(C0, key).files]
                     /\ cstate' = [cstate EXCEPT !.op = "__delitem__", !.status = "ok"]
    /\ UNCHANGED graphVars

\* the catalog object is dropped; its directory stays
CatalogClose ==
    /\ cstate.opened # "none"
    /\ cdata' = EmptyMap
    /\ cstate' = NoCatalog
    /\ UNCHANGED cdisk
    /\ UNCHANGED graphVars

NextCatalog ==
    \/ CatalogLoad
    \/ FromOldCatalog
    \/ CatalogCreate
    \/ CatalogSet
    \/ CatalogDelete
    \/ CatalogClose

SpecCatalog == InitCatalog /\ [][NextCatalog]_vars

(***************************************************************************)
(* fully_satisfied over the hash records a catalog and a cache can hold.   *)
(* A Dataset hashes every attribute it carries, so two records of one      *)
(* dataset can cover different attributes.                                 *)
(***************************************************************************)
ExtraFields == {"extra"}

\* the hash records of a dataset with and without the extra attribute
SatRecs == [Fields -> Digests] \cup [Fields \cup ExtraFields -> Digests]

SatGraph ==
    [e \in {<<"_", "A">>, <<"_", "C">>} |->
        IF e = <<"_", "A">>
        THEN [input_datasets |-> <<>>, output_datasets |-> <<"A">>,
              transformations |-> <<MakeStep("A", 1)>>]
        ELSE [input_datasets |-> <<"A", "B">>, output_datasets |-> <<"C">>,
              transformations |-> <<MakeStep("C", 0)>>]]

\* a cache entry whose .metadata file carries the hash record h
CacheEntry(n, h) ==
    [metadata |-> [dataset_name |-> n, hashes |-> h], dataset |-> Dataset(n, 0)]

\* nothing, or one element of S
Opt(S) == {{}} \cup {{x} : x \in S}

\* the maps that give "A" nothing or one of `as`, and "B" nothing or one of `bs`
Entries(as, bs) ==
    {[n \in (IF a = {} THEN {} ELSE {"A"}) \cup (IF b = {} THEN {} ELSE {"B"}) |->
         IF n = "A" THEN CHOOSE x \in a : TRUE ELSE CHOOSE x \in b : TRUE]
     : a \in Opt(as), b \in Opt(bs)}

InitSat ==
    /\ transformers = SatGraph
    /\ datasets \in Entries(
           {[dataset_name |-> "A", hashes |-> h] : h \in SatRecs \cup {EmptyRec}},
           {placeholder("B"), metadata_of(Dataset("B", 0))})
    /\ cache \in Entries(
           {CacheEntry("A", h) : h \in SatRecs},
           {CacheEntry("B", generate_data_hashes(Dataset("B", p))) : p \in Payloads})
    /\ last = NoLast
    /\ hist = NoHist
    /\ budget = 0
    /\ cdata = EmptyMap
    /\ cdisk = NoDir
    /\ cstate = NoCatalog
    /\ held = NoneDS
    /\ dsrc = NoSource
    /\ rawfiles = EmptyMap

NextSat ==
    \/ FullySatisfied
    \/ Return

SpecSat == InitSat /\ [][NextSat]_vars

(***************************************************************************)
(* Dataset objects: construction, payload assignment, update_hashes,       *)
(* verify_hashes, dump and from_disk against one cache directory and one   *)
(* datasets catalog                                                        *)
(***************************************************************************)
DatasetNames == {"A", "B"}
ArgKeys == Fields \cup {"extra"}

\* the lists of (key, hash string) pairs with distinct keys passed to verify_hashes
HashItems ==
    {<<>>} \cup {<<<<k, d>>>> : k \in ArgKeys, d \in Digests}
           \cup {s \in {<<<<k1, d1>>, <<k2, d2>>>> :
                            k1 \in Fields, d1 \in Digests, k2 \in Fields, d2 \in Digests} :
                     s[1][1] # s[2][1]}

NoCall == [op |-> "init", name |-> "", args |-> <<>>, status |-> "",
           reversed |-> "", meta |-> NoMeta]

dsFrame == <<transformers, hist, budget, cdata, cdisk, cstate, dsrc, rawfiles>>

InitDataset ==
    /\ transformers = EmptyMap
    /\ datasets \in {EmptyMap, [n \in {"A"} |-> placeholder("A")]}
    /\ cache = EmptyMap
    /\ last = NoCall
    /\ hist = NoHist
    /\ budget = 0
    /\ cdata = EmptyMap
    /\ cdisk = NoDir
    /\ cstate = NoCatalog
    /\ held = NoneDS
    /\ dsrc = NoSource
    /\ rawfiles = EmptyMap

\* ds = Dataset(dataset_name, data=data)
DatasetNew ==
    /\ \E n \in DatasetNames, p \in Payloads :
        /\ held' = Dataset(n, p)
        /\ last' = [NoCall EXCEPT !.op = "Dataset", !.name = n, !.status = "ok"]
    /\ UNCHANGED <<datasets, cache>>
    /\ UNCHANGED dsFrame

\* ds.data = value: the payload changes, the metadata does not
SetData ==
    /\ held # NoneDS
    /\ \E p \in Payloads \ {held.data} :
        /\ held' = [held EXCEPT !.data = p]
        /\ last' = [NoCall EXCEPT !.op = "setattr", !.name = held.dataset_name,
                                  !.status = "ok"]
    /\ UNCHANGED <<datasets, cache>>
    /\ UNCHANGED dsFrame

\* ds.update_hashes()
UpdateHashes ==
    /\ held # NoneDS
    /\ held' = update_hashes(held)
    /\ last' = [NoCall EXCEPT !.op = "update_hashes", !.name = held.dataset_name,
                              !.status = "ok"]
    /\ UNCHANGED <<datasets, cache>>
    /\ UNCHANGED dsFrame

\* ds.verify_hashes(dict(items)), and the same with the items reversed
VerifyHashes ==
    /\ held # NoneDS
    /\ \E items \in HashItems :
        last' = [NoCall EXCEPT
                    !.op = "verify_hashes", !.name = held.dataset_name, !.args = items,
                    !.status = IF verify_hashes(held, dict(items)) THEN "True" ELSE "False",
                    !.reversed = IF verify_hashes(held, dict(Reverse(items)))
                                 THEN "True" ELSE "False"]
    /\ UNCHANGED <<datasets, cache, held>>
    /\ UNCHANGED dsFrame

\* ds.dump(exists_ok=exists_ok, update_catalog=update_catalog)
Dump ==
    /\ held # NoneDS
    /\ \E exists_ok \in BOOLEAN, update_catalog \in BOOLEAN :
        \E r \in {Dataset_dump(datasets, cache, held, exists_ok, update_catalog)} :
            /\ datasets' = r.D
            /\ cache' = r.K
            /\ held' = r.ds
            /\ last' = [NoCall EXCEPT !.op = "dump", !.name = held.dataset_name,
                                      !.args = <<exists_ok, update_catalog>>,
                                      !.status = r.status]
    /\ UNCHANGED dsFrame

\* ds = Dataset.from_disk(name, metadata_only=metadata_only)
FromDisk ==
    /\ \E n \in DatasetNames, metadata_only \in BOOLEAN :
        \E r \in {Dataset_from_disk(G0, n, metadata_only)} :
            /\ held' = IF r.status = "ok" /\ ~metadata_only THEN r.ds ELSE held
            /\ last' = [NoCall EXCEPT !.op = "from_disk", !.name = n,
                                      !.args = <<metadata_only>>,
                                      !.status = r.status, !.meta = r.meta]
    /\ UNCHANGED <<datasets, cache>>
    /\ UNCHANGED dsFrame

NextDataset ==
    \/ DatasetNew
    \/ SetData
    \/ UpdateHashes
    \/ VerifyHashes
    \/ Dump
    \/ FromDisk

SpecDataset == InitDataset /\ [][NextDataset]_vars

(***************************************************************************)
(* Graphs with multi-step pipelines, a pass-through step and a             *)
(* multi-output edge, as read from the transformers catalog; the datasets  *)
(* catalog holds the placeholders and nothing is cached yet                *)
(***************************************************************************)
Edge(ins, outs, steps) ==
    [input_datasets |-> ins, output_datasets |-> outs, transformations |-> steps]

PassThrough == [fn |-> "identity", outs |-> {}, seed |-> 0]

SourceA == Edge(<<>>, <<"A">>, <<MakeStep("A", 1)>>)

PipeGraphs ==
    { (<<"_", "A">> :> SourceA) @@
      (<<"_", "B">> :> Edge(<<"A">>, <<"B">>, <<MakeStep("B", 0), MakeStep("B", 1)>>)),
      (<<"_", "A">> :> SourceA) @@
      (<<"_", "B">> :> Edge(<<"A">>, <<"B">>, <<PassThrough, MakeStep("B", 0)>>)),
      (<<"_", "A">> :> SourceA) @@
      (<<"_", "B">> :> Edge(<<"A">>, <<"B">>, <<MakeStep("C", 0), MakeStep("B", 1)>>)),
      (<<"_", "B", "C">> :> Edge(<<>>, <<"B", "C">>,
                                 <<[fn |-> "make", outs |-> {"B", "C"}, seed |-> 1]>>)) @@
      (<<"_", "A">> :> Edge(<<"B", "C">>, <<"A">>, <<MakeStep("A", 0)>>)) }

InitPipes ==
    /\ transformers \in PipeGraphs
    /\ datasets = validate_hypergraph(transformers, EmptyMap)
    /\ cache = EmptyMap
    /\ last = NoLast
    /\ hist = NoHist
    /\ budget = MaxExternal
    /\ cdata = EmptyMap
    /\ cdisk = NoDir
    /\ cstate = NoCatalog
    /\ held = NoneDS
    /\ dsrc = NoSource
    /\ rawfiles = EmptyMap

NextPipes ==
    \/ Traverse
    \/ ProcessEdge
    \/ Generate
    \/ ExternalRemove
    \/ Return

SpecPipes == InitPipes /\ [][NextPipes]_vars

(***************************************************************************)
(* Building a graph: add_source and add_edge calls with edge names and     *)
(* output lists of the caller's choosing, and reloads                      *)
(***************************************************************************)
MakeBoth == [fn |-> "make", outs |-> {"A", "B"}, seed |-> 1]

BuildMenu ==
    { [input_datasets |-> <<>>, output_datasets |-> <<"A", "B">>, edge_name |-> <<>>,
       pipeline_given |-> TRUE, transformer_pipeline |-> <<MakeBoth>>],
      [input_datasets |-> <<>>, output_datasets |-> <<"B", "A">>, edge_name |-> <<>>,
       pipeline_given |-> TRUE, transformer_pipeline |-> <<MakeBoth>>],
      [input_datasets |-> <<"A">>, output_datasets |-> <<"B">>, edge_name |-> <<>>,
       pipeline_given |-> TRUE, transformer_pipeline |-> <<MakeStep("B", 0)>>],
      [input_datasets |-> <<"A">>, output_datasets |-> <<"B">>, edge_name |-> <<"other">>,
       pipeline_given |-> TRUE, transformer_pipeline |-> <<MakeStep("B", 1)>>] }

\* add_edge(**m, write_catalog=..., overwrite_catalog=..., generate=...)
AddNamedEdge ==
    /\ Idle
    /\ \E m \in BuildMenu, write_catalog, overwrite_catalog, gen \in BOOLEAN :
      LET a == [input_datasets |-> m.input_datasets, output_datasets |-> m.output_datasets,
                edge_name |-> m.edge_name, pipeline_given |-> m.pipeline_given,
                transformer_pipeline |-> m.transformer_pipeline,
                write_catalog |-> write_catalog, overwrite_catalog |-> overwrite_catalog,
                generate |-> gen]
      IN  \E r \in add_edge(G0, a) :
            /\ transformers' = r.T
            /\ datasets' = r.D
            /\ cache' = r.K
            /\ last' = [NoLast EXCEPT !.op = "add_edge", !.edge = r.edge_name,
                            !.args = <<m.input_datasets, m.output_datasets, m.pipeline_given,
                                       write_catalog, gen>>,
                            !.overwrite = overwrite_catalog,
                            !.status = r.status, !.ran = r.ran,
                            !.preD = DOMAIN datasets, !.preT = DOMAIN transformers]
            /\ hist' = NoHist
            /\ UNCHANGED budget
            /\ UNCHANGED catVars

NextBuild ==
    \/ NewGraph
    \/ AddSource
    \/ AddNamedEdge
    \/ Return

SpecBuild == Init /\ [][NextBuild]_vars

(***************************************************************************)
(* One DataSource over the raw data directory: fetch, unpack and process,  *)
(* add_url, and files appearing, changing and disappearing outside the     *)
(* program                                                                 *)
(***************************************************************************)
FileItem(file_name, fetch_action, hash_value) ==
    [file_name |-> file_name, fetch_action |-> fetch_action, hash_value |-> hash_value]

\* the file lists a DataSource is constructed with
FileLists ==
    {<<FileItem("f1", "url", h)>> : h \in {NoHash, hexdigest(hash_file(0))}}
    \cup {<<FileItem("f1", "url", NoHash), FileItem("f2", a, NoHash)>> : a \in {"url", "message"}}

NoStage == [op |-> "init", status |-> "", force |-> FALSE, calls |-> 0, downloads |-> 0,
            invoked |-> FALSE, flags |-> <<FALSE, FALSE>>]

srcFrame == <<transformers, datasets, cache, hist, budget, cdata, cdisk, cstate, held>>

InitSource ==
    /\ transformers = EmptyMap
    /\ datasets = EmptyMap
    /\ cache = EmptyMap
    /\ last = NoStage
    /\ hist = NoHist
    /\ budget = 0
    /\ cdata = EmptyMap
    /\ cdisk = NoDir
    /\ cstate = NoCatalog
    /\ held = NoneDS
    /\ dsrc \in {[NoSource EXCEPT !.file_dict = fd] : fd \in FileLists}
    /\ rawfiles = EmptyMap

\* dsrc.fetch(force_download=force)
Fetch ==
    /\ \E force \in BOOLEAN :
        \E r \in DataSource_fetch(dsrc, rawfiles, force) :
          /\ dsrc' = r.src
          /\ rawfiles' = r.files
          /\ last' = [NoStage EXCEPT !.op = "fetch", !.force = force,
                                     !.status = IF r.ret THEN "True" ELSE "False",
                                     !.calls = r.calls, !.downloads = r.downloads]
    /\ UNCHANGED srcFrame

\* dsrc.unpack(force_unpack=force)
Unpack ==
    /\ \E force \in BOOLEAN :
        \E r \in DataSource_unpack(dsrc, rawfiles, force) :
          /\ dsrc' = r.src
          /\ rawfiles' = r.files
          /\ last' = [NoStage EXCEPT !.op = "unpack", !.force = force, !.status = r.status,
                                     !.calls = r.calls, !.downloads = r.downloads]
    /\ UNCHANGED srcFrame

\* dsrc.process()
Process ==
    /\ \E r \in DataSource_process(dsrc, rawfiles) :
          /\ dsrc' = r.src
          /\ rawfiles' = r.files
          /\ last' = [NoStage EXCEPT !.op = "process", !.status = r.status,
                                     !.invoked = r.invoked, !.flags = r.flags]
    /\ UNCHANGED srcFrame

\* dsrc.add_url(url, file_name="f2", force=force)
AddUrl ==
    /\ \E force \in BOOLEAN :
        LET at == {i \in DOMAIN dsrc.file_dict : dsrc.file_dict[i].file_name = "f2"}
            item == FileItem("f2", "url", NoHash)
        IN  IF at # {} /\ ~force
            THEN /\ last' = [NoStage EXCEPT !.op = "add_url", !.status = "ObjectCollision"]
                 /\ UNCHANGED dsrc
            ELSE /\ dsrc' = [dsrc EXCEPT
                                !.file_dict = IF at = {} THEN Append(dsrc.file_dict, item)
                                              ELSE [i \in DOMAIN dsrc.file_dict |->
                                                       IF i \in at THEN item
                                                       ELSE dsrc.file_dict[i]],
                                !.fetched_ = FALSE]
                 /\ last' = [NoStage EXCEPT !.op = "add_url", !.status = "ok"]
    /\ UNCHANGED rawfiles
    /\ UNCHANGED srcFrame

\* outside the program: a raw file is put in place or changed
RawWrite ==
    /\ \E f \in {"f1", "f2"}, c \in Contents :
        /\ IF f \in DOMAIN rawfiles THEN rawfiles[f] # c ELSE TRUE
        /\ rawfiles' = Put(rawfiles, f, c)
    /\ last' = [NoStage EXCEPT !.op = "outside"]
    /\ UNCHANGED dsrc
    /\ UNCHANGED srcFrame

\* outside the program: a raw file is removed
RawRemove ==
    /\ \E f \in DOMAIN rawfiles : rawfiles' = Drop(rawfiles, f)
    /\ last' = [NoStage EXCEPT !.op = "outside"]
    /\ UNCHANGED dsrc
    /\ UNCHANGED srcFrame

NextSource ==
    \/ Fetch
    \/ Unpack
    \/ Process
    \/ AddUrl
    \/ RawWrite
    \/ RawRemove

SpecSource == InitSource /\ [][NextSource]_vars

(***************************************************************************)
(* Properties                                                              *)
(***************************************************************************)
inputs_of(T, e) == Range(T[e].input_datasets)
outputs_of(T, e) == Range(T[e].output_datasets)

\* the nodes reachable from `node` by walking producing edges backwards
RECURSIVE AncestorsFrom(_, _, _)
AncestorsFrom(T, frontier, seen) ==
    LET parents == UNION {inputs_of(T, e) : e \in {x \in DOMAIN T :
                              outputs_of(T, x) \cap frontier # {}}}
        new == parents \ seen
    IN  IF new = {} THEN seen ELSE AncestorsFrom(T, new, seen \cup new)

Ancestors(T, node) == AncestorsFrom(T, {node}, {})

Acyclic(T) == \A n \in nodes(T) : n \notin Ancestors(T, n)

\* the position of node n in the sequence s
Pos(s, n) == CHOOSE i \in DOMAIN s : s[i] = n

\* the chain A -> B -> C of single-input, single-output edges, A from a source
Chain(T) ==
    /\ \E e \in DOMAIN T : T[e].input_datasets = <<>> /\ T[e].output_datasets = <<"A">>
    /\ \E e \in DOMAIN T : T[e].input_datasets = <<"A">> /\ T[e].output_datasets = <<"B">>
    /\ \E e \in DOMAIN T : T[e].input_datasets = <<"B">> /\ T[e].output_datasets = <<"C">>
    /\ \A n \in Names : Cardinality(find_child(T, n)) = 1

\* C1: generate(X), non-exhaustive, on an X that is CachedFresh executes no
\* transformer step and returns the metadata that is cached.
C1_GenerateIdempotent ==
    (/\ last.op = "generate"
     /\ ~last.exhaustive
     /\ last.fresh
     /\ last.status = "ok")
    => (last.ran = 0 /\ last.retmeta = last.premeta)

\* C2: in the edge list traverse returns for an acyclic graph (either kind,
\* exhaustive or not), a listed edge that produces an input of another listed
\* edge comes strictly before it; generate processes the list in that order.
C2_TraversalOrderIsRegenerationOrder ==
    (/\ last.op \in {"traverse", "generate"}
     /\ last.status = "ok"
     /\ Acyclic(transformers))
    => \A i, j \in DOMAIN last.edges :
          (/\ last.edges[i] # last.edges[j]
           /\ outputs_of(transformers, last.edges[i])
                 \cap inputs_of(transformers, last.edges[j]) # {})
          => i < j

\* cached on disk, in the catalog, and the on-disk record agrees with the
\* catalog's hash record if the catalog has one
CachedAgrees(G, n) ==
    /\ n \in DOMAIN G.K
    /\ n \in DOMAIN G.D
    /\ G.D[n].hashes # EmptyRec => G.K[n].metadata.hashes = G.D[n].hashes

\* C3: after generate(target) returns successfully with writing enabled, every
\* node the traversal visited is CachedFresh, whatever the state before the call
\* and whether or not its edge declares transformation steps.
C3_GenerateLeavesVisitedCachedFresh ==
    (/\ last.op = "generate"
     /\ last.status = "ok"
     /\ last.write)
    => \A n \in Range(last.visited) : CachedAgrees(G0, n)

\* whether every input of `edge` has an entry in the datasets catalog
InputsCatalogued(G, edge) == inputs_of(G.T, edge) \subseteq DOMAIN G.D

\* C4 (as amended): fully_satisfied is true for a source edge; for another edge
\* whose inputs all have catalog entries it is true iff every input is cached on
\* disk and either the catalog holds no hash record for it or every key/value
\* pair of the on-disk record is in the catalog's record.
C4_FullySatisfiedSubsetOfCatalog ==
    last.op = "fully_satisfied" =>
        /\ is_source(transformers, last.edge) => last.status = "True"
        /\ (~is_source(transformers, last.edge) /\ InputsCatalogued(G0, last.edge))
           => (last.status = "True" <=>
                 \A n \in inputs_of(transformers, last.edge) :
                    /\ n \in DOMAIN cache
                    /\ \/ datasets[n].hashes = EmptyRec
                       \/ items_le(cache[n].metadata.hashes, datasets[n].hashes))

\* C4 (as stated): ... it is true iff every input is cached on disk and the
\* on-disk hash record contains every key/value pair of the catalog's record.
C4_FullySatisfiedSupersetOfCatalog ==
    last.op = "fully_satisfied" =>
        /\ is_source(transformers, last.edge) => last.status = "True"
        /\ (~is_source(transformers, last.edge) /\ InputsCatalogued(G0, last.edge))
           => (last.status = "True" <=>
                 \A n \in inputs_of(transformers, last.edge) :
                    /\ n \in DOMAIN cache
                    /\ items_le(datasets[n].hashes, cache[n].metadata.hashes))

\* an edge over two inputs was found satisfied although the catalog's record of
\* A has a pair the on-disk record lacks
C4_Witness ==
    /\ last.op = "fully_satisfied"
    /\ last.edge = <<"_", "C">>
    /\ last.status = "True"
    /\ datasets["A"].hashes # EmptyRec
    /\ ~items_le(datasets["A"].hashes, cache["A"].metadata.hashes)

\* fully_satisfied was asked about the edge A -> B of a chain A -> B -> C
AskedAboutB ==
    /\ last.op = "fully_satisfied"
    /\ "B" \in outputs_of(transformers, last.edge)
    /\ "A" \in inputs_of(transformers, last.edge)
    /\ \E e \in find_child(transformers, "C") : "B" \in inputs_of(transformers, e)

\* C5 (as amended): after generate("C") has succeeded on a chain A -> B -> C, if
\* the catalog holds a hash record for A that A's on-disk record matched, then
\* changing a hash value in A's on-disk record makes the next fully_satisfied
\* check on the edge producing B return false.
C5_StalenessDetectedWhenCatalogued ==
    (AskedAboutB /\ hist.armed /\ hist.mutatedA /\ hist.matchedA)
    => last.status = "False"

\* C5 (as stated): the same for every allowed overwrite_catalog setting of the
\* generate call, whatever the catalog holds for A.
C5_StalenessAlwaysDetected ==
    (AskedAboutB /\ hist.armed /\ hist.mutatedA)
    => last.status = "False"

\* the check on the edge producing B answered false after A's record changed
C5_Witness ==
    /\ AskedAboutB
    /\ hist.armed /\ hist.mutatedA /\ hist.matchedA
    /\ last.status = "False"
    /\ Chain(transformers)

\* C6: in a non-exhaustive traverse a node other than the target is visited
\* only as an input of a not-fully-satisfied edge producing a node visited
\* before it; an exhaustive traverse visits every ancestor of the target.  On
\* the chain A -> B -> C with A CachedFresh and B, C missing, traverse("C")
\* returns [B, C], and [A, B, C] when exhaustive.
C6_TraversalFrontier ==
    (last.op = "traverse" /\ last.status = "ok") =>
        /\ ~last.exhaustive =>
             \A n \in Range(last.visited) \ {last.node} :
                \E m \in Range(last.visited) :
                    /\ Pos(last.visited, m) > Pos(last.visited, n)
                    /\ \E e \in find_child(transformers, m) :
                          /\ fully_satisfied(G0, e) = "False"
                          /\ n \in inputs_of(transformers, e)
        /\ last.exhaustive => Ancestors(transformers, last.node) \subseteq Range(last.visited)
        /\ (/\ Chain(transformers)
            /\ CachedFresh(G0, "A")
            /\ "B" \notin DOMAIN cache
            /\ "C" \notin DOMAIN cache
            /\ last.node = "C")
           => last.visited = IF last.exhaustive THEN <<"A", "B", "C">> ELSE <<"B", "C">>

\* the non-exhaustive traverse of the chain stopped at the satisfied edge into B
C6_Witness ==
    /\ last.op = "traverse" /\ last.status = "ok"
    /\ ~last.exhaustive
    /\ Chain(transformers)
    /\ CachedFresh(G0, "A")
    /\ "B" \notin DOMAIN cache
    /\ "C" \notin DOMAIN cache
    /\ last.node = "C"
    /\ last.visited = <<"B", "C">>

C8_LegacyMigrationPersists ==
    (/\ cstate.opened = "from_old_catalog"
     /\ cstate.op = "from_old_catalog"
     /\ cstate.status = "ok")
    => /\ catalog_load(cdisk.files) = cstate.legacy
       /\ {f \in DOMAIN cdisk.files : f[2] = extension}
             = {key_file(k) : k \in DOMAIN cstate.legacy}

\* C9: from catalogs that know neither A nor B, after add_edge(input_datasets=
\* ["A"], output_datasets=["B"]) with default options B is a node, A and B both
\* have a datasets entry, and find_child("B") is ({"A"}, edge_name, {"B"}).
C9_AddEdgeLeavesGraphConsistent ==
    (/\ last.op = "add_edge"
     /\ last.args = <<<<"A">>, <<"B">>, FALSE, TRUE, TRUE>>
     /\ ~last.overwrite
     /\ last.preD = {}
     /\ last.preT = {})
    => /\ "B" \in nodes(transformers)
       /\ {"A", "B"} \subseteq DOMAIN datasets
       /\ find_child(transformers, "B") = {last.edge}
       /\ inputs_of(transformers, last.edge) = {"A"}
       /\ outputs_of(transformers, last.edge) = {"B"}

\* C10: in every state reached through DatasetGraph(), add_source, add_edge,
\* process_edge and generate, calls that raise included, every node has an
\* entry in the datasets catalog.
C10_EveryNodeHasCatalogEntry ==
    nodes(transformers) \subseteq DOMAIN datasets

\* add_edge was called with write_catalog on, generate off, and did not collide
AddEdgeNoGenerate ==
    /\ last.op = "add_edge"
    /\ last.args[4]
    /\ ~last.args[5]
    /\ last.status # "ObjectCollision"

EntryOf(args) ==
    LET m == CHOOSE x \in EdgeMenu : /\ x.input_datasets = args[1]
                                     /\ x.output_datasets = args[2]
                                     /\ x.pipeline_given = args[3]
    IN  [input_datasets |-> args[1], output_datasets |-> args[2],
         transformations |-> IF args[3] THEN m.transformer_pipeline ELSE <<>>]

\* C12: add_edge with an edge name that is already in the transformers catalog
\* and overwrite_catalog=False raises ObjectCollision and leaves the
\* transformers and datasets catalogs as they were; with overwrite_catalog=True
\* (the entry being written, write_catalog=True) the new record replaces the
\* existing one.
C12_AddEdgeRefusesToOverwrite ==
    [][ (last'.op = "add_edge" /\ last'.edge \in DOMAIN transformers) =>
          /\ ~last'.overwrite =>
                /\ last'.status = "ObjectCollision"
                /\ transformers' = transformers
                /\ datasets' = datasets
                /\ cache' = cache
          /\ (last'.overwrite /\ last'.args[4]) =>
                /\ last'.status # "ObjectCollision"
                /\ transformers'[last'.edge] = EntryOf(last'.args)
                /\ DOMAIN transformers' = DOMAIN transformers ]_vars

\* a call that named an existing edge was refused
C12_Witness ==
    /\ last.op = "add_edge"
    /\ last.edge \in last.preT
    /\ ~last.overwrite
    /\ last.status = "ObjectCollision"
    /\ last.edge \in DOMAIN transformers

\* process_edge(edge, write, overwrite_catalog=False) run in the current state
\* produces output n with a hash record that differs from the one the datasets
\* catalog holds for n
ProducesMismatch(edge, write, n) ==
    \E r \in {process_edge(G0, edge, write, FALSE)} :
        /\ r.ran > 0
        /\ n \in DOMAIN r.dsdict
        /\ r.dsdict[n] # NoneDS
        /\ n \in DOMAIN datasets
        /\ datasets[n].hashes # EmptyRec
        /\ ~items_le(datasets[n].hashes, generate_data_hashes(r.dsdict[n]))

\* C13: with overwrite_catalog=False, if a produced output that has a hash
\* record in the datasets catalog computes a different hash, process_edge
\* returns None, does not write that output, and leaves its catalog entry as
\* it was.
C13_ProcessEdgeHashGuard ==
    [][ (last'.op = "process_edge" /\ ~last'.overwrite) =>
          \A n \in Names :
             ProducesMismatch(last'.edge, last'.write, n) =>
                /\ last'.status = "None"
                /\ datasets'[n] = datasets[n]
                /\ (n \in DOMAIN cache') = (n \in DOMAIN cache)
                /\ n \in DOMAIN cache => cache'[n] = cache[n] ]_vars

\* process_edge ran the edge's step with writing enabled and returned None
C13_Witness ==
    /\ last.op = "process_edge"
    /\ ~last.overwrite
    /\ last.write
    /\ last.ran = 1
    /\ last.status = "None"
    /\ \E n \in outputs_of(transformers, last.edge) : datasets[n].hashes # EmptyRec

\* the state and running totals after process_edge has returned a dsdict for
\* each edge of `prefix` in turn, starting from G
RECURSIVE AfterEdges(_, _, _, _)
AfterEdges(R, prefix, write_datasets, overwrite_catalog) ==
    IF prefix = <<>> \/ R.status # "ok" THEN R
    ELSE LET then(r) == AfterEdges([status |-> r.status, T |-> R.T, D |-> r.D, K |-> r.K,
                                    ran |-> R.ran + r.ran, wrote |-> R.wrote \cup r.wrote],
                                   Tail(prefix), write_datasets, overwrite_catalog)
         IN  then(process_edge([T |-> R.T, D |-> R.D, K |-> R.K], Head(prefix),
                               write_datasets, overwrite_catalog))

\* C14: if process_edge fails (returns None or raises) for the k-th edge of the
\* traversal list, generate fails the same way, the state is the one the k-th
\* process_edge call left (no later edge is processed), and every output
\* written by edges 1..k-1 is still on disk and in the catalog as written.
C14_GenerateAbortsOnFirstFailure ==
    [][ (/\ last'.op = "generate"
         /\ last'.status # "ok"
         /\ \E tr \in traverse(G0, last'.node, "breadth-first", last'.exhaustive) :
               tr.status = "ok" /\ tr.edges = last'.edges) =>
          /\ last'.done < Len(last'.edges)
          /\ \E P \in {AfterEdges([status |-> "ok", T |-> transformers, D |-> datasets,
                                   K |-> cache, ran |-> 0, wrote |-> {}],
                                  SubSeq(last'.edges, 1, last'.done),
                                  last'.write, last'.overwrite)} :
                /\ P.status = "ok"
                /\ \A n \in P.wrote :
                      /\ n \in DOMAIN cache' /\ cache'[n] = P.K[n]
                      /\ n \in DOMAIN datasets' /\ datasets'[n] = P.D[n]
                /\ \E r \in {process_edge([T |-> transformers, D |-> P.D, K |-> P.K],
                                          last'.edges[last'.done + 1],
                                          last'.write, last'.overwrite)} :
                      /\ r.status = last'.status
                      /\ cache' = r.K
                      /\ datasets' = r.D
                      /\ last'.ran = P.ran + r.ran ]_vars

\* generate failed at its second or a later edge after an earlier edge had
\* written its output
C14_Witness ==
    /\ last.op = "generate"
    /\ last.status \in {"None", "EasydataError", "ValidationError"}
    /\ last.write
    /\ last.done >= 1
    /\ last.done < Len(last.edges)
    /\ last.ran > 1
    /\ outputs_of(transformers, last.edges[1]) \subseteq DOMAIN cache

\* C15: after a successful dump with update_catalog, the hash records in the
\* .metadata file, in the .dataset file and in the catalog entry all equal the
\* hashes of the payload as written.
C15_DumpCommitsHashesTogether ==
    (last.op = "dump" /\ last.status = "ok" /\ last.args[2]) =>
        LET written == cache[last.name].dataset
            payload_hashes == generate_data_hashes(written)
        IN  /\ cache[last.name].metadata.hashes = payload_hashes
            /\ written.hashes = payload_hashes
            /\ datasets[last.name].hashes = payload_hashes

\* C16: dump without exists_ok onto an existing .metadata file raises
\* ObjectCollision, whether the metadata matches the file or not, and changes
\* neither the cache directory nor the catalog.
C16_DumpRefusesExistingRecord ==
    [][ (last'.op = "dump" /\ ~last'.args[1] /\ last'.name \in DOMAIN cache) =>
            /\ last'.status = "ObjectCollision"
            /\ cache' = cache
            /\ datasets' = datasets ]_vars

\* C16 as stated: matching metadata is a no-op without an error, differing
\* metadata raises ObjectCollision; nothing on disk or in the catalog changes.
C16_IdenticalDumpIsSilentNoOp ==
    [][ (last'.op = "dump" /\ ~last'.args[1] /\ last'.name \in DOMAIN cache) =>
            /\ last'.status = IF metadata_of(held) = cache[last'.name].metadata
                              THEN "ok" ELSE "ObjectCollision"
            /\ cache' = cache
            /\ datasets' = datasets ]_vars

\* a dump without exists_ok was refused although the dataset's metadata
\* equals the .metadata file
C16_Witness ==
    /\ last.op = "dump"
    /\ ~last.args[1]
    /\ last.status = "ObjectCollision"
    /\ last.name \in DOMAIN cache
    /\ metadata_of(held) = cache[last.name].metadata

\* C17: verify_hashes(expected) is True exactly when every pair of expected is
\* in the dataset's own hash record, whatever the order of the pairs; so it is
\* True for no pairs, False for a differing value of a present key, and True
\* for the dataset's own record.
C17_VerifyHashesSubset ==
    /\ last.op = "verify_hashes" =>
          /\ (last.status = "True") <=>
                 \A i \in DOMAIN last.args :
                    /\ last.args[i][1] \in DOMAIN held.hashes
                    /\ held.hashes[last.args[i][1]] = last.args[i][2]
          /\ last.reversed = last.status
          /\ last.args = <<>> => last.status = "True"
          /\ (\E i \in DOMAIN last.args :
                 /\ last.args[i][1] \in DOMAIN held.hashes
                 /\ held.hashes[last.args[i][1]] # last.args[i][2]) => last.status = "False"
    /\ held # NoneDS => verify_hashes(held, held.hashes)

\* verify_hashes answered False for two pairs of which only the second differs
\* from the record of a dataset whose payload was changed and re-hashed
C17_Witness ==
    /\ last.op = "verify_hashes"
    /\ last.status = "False"
    /\ Len(last.args) = 2
    /\ held.hashes[last.args[1][1]] = last.args[1][2]
    /\ held.hashes = generate_data_hashes(held)
    /\ held.data = 1

\* C18: from_disk with check_hashes returns the dataset (or the metadata) only
\* if every pair of the catalog entry's hash record is in the hash records it
\* read from disk, and raises ValidationError, returning nothing, if one is not.
C18_FromDiskChecksCatalogHashes ==
    last.op = "from_disk" =>
        LET n == last.name
            metadata_only == last.args[1]
            matches == /\ items_le(datasets[n].hashes, cache[n].metadata.hashes)
                       /\ metadata_only \/ items_le(datasets[n].hashes, cache[n].dataset.hashes)
        IN  /\ last.status = "ok" =>
                /\ n \in DOMAIN datasets /\ n \in DOMAIN cache
                /\ matches
                /\ IF metadata_only THEN last.meta = cache[n].metadata
                                    ELSE held = cache[n].dataset
            /\ (n \in DOMAIN datasets /\ n \in DOMAIN cache /\ ~matches) =>
                /\ last.status = "ValidationError"
                /\ last.meta = NoMeta

\* from_disk raised ValidationError for a dataset whose .metadata file lacks a
\* pair of the catalog entry
C18_Witness ==
    /\ last.op = "from_disk"
    /\ last.status = "ValidationError"
    /\ last.name \in DOMAIN cache
    /\ ~items_le(datasets[last.name].hashes, cache[last.name].metadata.hashes)

\* C19: load of a name in the datasets catalog whose cached copy matches the
\* catalog returns the cached copy and runs no transformer; with the copy
\* absent or not matching, the dataset comes from generate over the
\* transformer graph; a name not in the catalog raises NotFoundError; and a
\* second load right after the first returns the same dataset.
C19_LoadUsesCacheOrRegenerates ==
    [][ last'.op = "load" =>
          LET n == last'.node
          IN  /\ n \notin DOMAIN datasets => last'.status = "NotFoundError"
              /\ (n \in DOMAIN datasets /\ last'.fresh) =>
                    /\ last'.status = "ok"
                    /\ held' = cache[n].dataset
                    /\ last'.ran = 0
                    /\ cache' = cache
              /\ (n \in DOMAIN datasets /\ ~last'.fresh) => last'.kind = "from_catalog"
              /\ \A r2 \in Dataset_load([T |-> transformers', D |-> datasets', K |-> cache'], n) :
                    /\ r2.status = last'.status
                    /\ r2.ret = held' ]_vars

\* C20: Catalog.create on a directory that exists raises an error and leaves
\* the directory as it was when replace is False, and with replace=True wipes
\* the directory first, so that no earlier entry is in the new catalog.
C20_CreateRefusesExistingCatalog ==
    [][ (cstate'.op = "create" /\ cstate.opened = "none" /\ cdisk.exists) =>
          IF cstate'.replace
          THEN /\ cstate'.status = "ok"
               /\ \A f \in DOMAIN cdisk.files : f \notin DOMAIN cdisk'.files
               /\ cdata' = cstate'.legacy
          ELSE /\ cstate'.status # "ok"
               /\ cdisk' = cdisk ]_vars

\* C21: from_old_catalog onto an existing directory raises FileExistsError and
\* changes nothing when replace is False, and with replace=True returns a
\* catalog holding exactly the legacy file's entries; on a fresh location it
\* returns a catalog holding the legacy file's entries.
C21_FromOldCatalogOntoExisting ==
    [][ (cstate'.op = "from_old_catalog" /\ cstate.opened = "none") =>
          IF cdisk.exists /\ cstate'.status # "ok"
          THEN /\ cstate'.status = "FileExistsError"
               /\ cstate'.opened = "none"
               /\ cdisk' = cdisk
               /\ cdata' = cdata
          ELSE /\ cstate'.status = "ok"
               /\ cdisk.exists => cstate'.replace
               /\ cdata' = cstate'.legacy ]_vars

\* from_old_catalog with replace=False was refused on a directory that holds
\* catalog entries
C21_Witness ==
    /\ cstate.op = "from_old_catalog"
    /\ cstate.status = "FileExistsError"
    /\ DOMAIN catalog_load(cdisk.files) # {}

\* the mapping the steps from the i-th on make of dsdict, with no validation
\* or writing in between
RECURSIVE ThreadSteps(_, _, _)
ThreadSteps(steps, i, dsdict) ==
    IF i > Len(steps) THEN dsdict
    ELSE ThreadSteps(steps, i + 1, transformer(steps[i], dsdict))

\* process_edge ran at least one step of an edge with two or more steps
MultiStepRun ==
    /\ last'.op = "process_edge"
    /\ last'.ran > 0
    /\ Len(transformers[last'.edge].transformations) >= 2

\* C22: for an edge with two or more steps, process_edge validates and
\* persists the mapping of the last step only: whatever it changes in the cache
\* or in the datasets catalog is a dataset of the last step's mapping with
\* that payload, and it returns None only if the last step's mapping has a
\* None or a hash that the catalog does not have.
C22_OnlyLastStepPersisted ==
    [][ MultiStepRun =>
          \E ins \in {load_inputs(G0, transformers[last'.edge].input_datasets, 1, EmptyMap)} :
            LET final == ThreadSteps(transformers[last'.edge].transformations, 1, ins.dsdict)
            IN  /\ \A n \in DOMAIN cache' :
                      (n \notin DOMAIN cache \/ cache'[n] # cache[n]) =>
                          n \in DOMAIN final /\ cache'[n].dataset.data = final[n].data
                /\ \A n \in DOMAIN datasets' :
                      (n \in DOMAIN datasets /\ datasets'[n] # datasets[n]) =>
                          /\ n \in DOMAIN final
                          /\ datasets'[n].hashes = generate_data_hashes(final[n])
                /\ last'.status = "None" =>
                      \E n \in DOMAIN final :
                          \/ final[n] = NoneDS
                          \/ /\ ~last'.overwrite
                             /\ n \in DOMAIN datasets
                             /\ ~verify_hashes(update_hashes(final[n]), datasets[n].hashes) ]_vars

\* every managed file is in the raw data directory with the hash recorded for it
AllFilesMatch ==
    \A i \in DOMAIN dsrc.file_dict :
        /\ dsrc.file_dict[i].file_name \in DOMAIN rawfiles
        /\ hexdigest(hash_file(rawfiles[dsrc.file_dict[i].file_name]))
               = dsrc.file_dict[i].hash_value

\* C23: a fetch without force_download of a fetched DataSource whose files all
\* exist with the recorded hash returns True, executes no fetch action and
\* changes nothing (it is a no-op); with a file missing or mismatched every
\* file goes through fetch_file again.
C23_FetchedFlagSkipsFetch ==
    [][ (last'.op = "fetch" /\ ~last'.force /\ dsrc.fetched_) =>
          IF AllFilesMatch
          THEN /\ last'.status = "True"
               /\ last'.downloads = 0
               /\ dsrc' = dsrc
               /\ rawfiles' = rawfiles
          ELSE last'.calls = Len(dsrc.file_dict) ]_vars

\* C30: process calls the process function only with fetched_ and unpacked_
\* both set, and does not call it when the fetch or unpack it triggers fails.
C30_ProcessNeedsFetchedAndUnpacked ==
    (last.op = "process" /\ last.invoked) => last.flags = <<TRUE, TRUE>>

\* C24: whatever the order of the catalog, every output of every edge
\* without inputs is in Sources, and no node produced only by edges with
\* inputs is.
C24_SourcesView ==
    \A order \in Perms(DOMAIN transformers) :
        LET Sources == sources(update_degrees(transformers, order))
        IN  /\ \A e \in DOMAIN transformers :
                  is_source(transformers, e)
                      => Range(transformers[e].output_datasets) \subseteq Sources
            /\ \A n \in nodes(transformers) :
                  (\A e \in find_child(transformers, n) : ~is_source(transformers, e))
                      => n \notin Sources

SingleProducer(T) == \A n \in nodes(T) : Cardinality(find_child(T, n)) <= 1

\* C29: an add_source or add_edge call that succeeds on a graph in which
\* every node is an output of at most one edge leaves such a graph: an edge
\* under a new name that declares an output already produced is refused.
C29_SingleProducer ==
    [][ (last'.op \in {"add_edge", "add_source"} /\ last'.status = "ok"
           /\ SingleProducer(transformers))
          => SingleProducer(transformers') ]_vars

\* C25: an add_edge or add_source call that raises leaves the transformers
\* catalog exactly as it was.
C25_FailedAddEdgeRegistersNothing ==
    [][ (last'.op \in {"add_edge", "add_source"} /\ last'.status # "ok")
          => transformers' = transformers ]_vars

\* C26: whenever fully_satisfied is true of an edge with inputs, from_disk
\* with check_hashes=True raises no ValidationError for any of its inputs.
C26_StalenessChecksAgree ==
    \A edge \in DOMAIN transformers :
        (~is_source(transformers, edge) /\ fully_satisfied(G0, edge) = "True")
            => \A ds_name \in Range(transformers[edge].input_datasets) :
                   from_disk(G0, ds_name).status # "ValidationError"

\* C27: the edge list of a traverse call, and so the list of edges a
\* generate call processes, names no edge twice.
C27_NoEdgeListedTwice ==
    last.op \in {"traverse", "generate"} =>
        \A i, j \in DOMAIN last.edges : last.edges[i] = last.edges[j] => i = j

\* C28: a process_edge call with write_dataset and overwrite_catalog that
\* returns a dsdict has written exactly the edge's declared outputs.
C28_WritesExactlyDeclaredOutputs ==
    [][ (/\ last'.op = "process_edge"
         /\ last'.write /\ last'.overwrite
         /\ last'.status = "ok") =>
          process_edge(G0, last'.edge, TRUE, TRUE).wrote
              = Range(transformers[last'.edge].output_datasets) ]_vars
====
